---- MODULE Spec2Model ----
(***************************************************************************)
(* A model of torch/serialization.py: the format dispatcher of load, the   *)
(* current-archive (zip) writer and reader, the legacy sequential-archive  *)
(* (tar) reader, and the location registry.                                *)
(*                                                                         *)
(* Python values that the code compares across types are records           *)
(* [t |-> type name, v |-> value]; text is a sequence of one-character     *)
(* strings; an exception is a record [type, msg].                          *)
(***************************************************************************)
EXTENDS Integers, Sequences, FiniteSets, TLC

VARIABLES
    py,                 \* sys.version_info[0] of the interpreter: 2 or 3
    cuda,               \* the runtime: [available, count] of torch.cuda
    _package_registry,  \* the module-level list of (priority, tagger, deserializer)
    reg_calls,          \* every register_package call made so far, in order
    reg_err,            \* the exception the last register_package call raised
    f,                  \* the stream given to load
    map_location,       \* the remap request given to load
    zip_file,           \* the members of the zip container behind f (when it is one)
    tar,                \* the members of the tar container behind f (when it is one)
    pc,                 \* where load is
    err,                \* the exception load raised
    readers,            \* the readers load gave the stream to (a tar attempt that
                        \* tarfile.open ends with TarError is not one)
    stream_reads,       \* number of f.read(1) calls load made on the stream
    tmpdir,             \* the directory of mkdtemp: "none", "exists", "removed"
    heap,               \* the storages allocated during load, by instance number
    loaded_storages,    \* _load's table: key -> instance
    io_count,           \* per key: allocations, remapper calls, member reads
    resolved,           \* the instance persistent_load returned for each reference
    deserialized_objects, \* _legacy_tar_load's table: id -> object
    result,             \* what load returned
    obj,                \* the object graph given to save: a sequence of tensor views
    storages,           \* the in-memory storages of the graph, by _cdata
    dest,               \* the destination given to save: "path" or "stream"
    spc,                \* where save is
    save_err,           \* the exception save raised
    serialized_storages,\* _save's dedup table: key -> _cdata
    data_pkl,           \* the graph record the pickler has written so far
    tagger_calls,       \* the taggers location_tag called for the last storage, in order
    written             \* the members written to the destination, in order

regVars  == <<_package_registry, reg_calls, reg_err>>
envVars  == <<py, cuda>>
loadVars == <<f, map_location, zip_file, tar, pc, err, readers, stream_reads, tmpdir,
              heap, loaded_storages, io_count, resolved, deserialized_objects, result>>
saveVars == <<obj, storages, dest, spc, save_err, serialized_storages, data_pkl,
              tagger_calls, written>>
vars == <<regVars, envVars, loadVars, saveVars>>

----------------------------------------------------------------------------
(* Text *)

None == [t |-> "NoneType", v |-> <<>>]

NoErr == [type |-> "none", msg |-> <<>>]

Exc(type, msg) == [type |-> type, msg |-> msg]

\* p in s, for two texts
Contains(p, s) ==
    \E i \in 1..(Len(s) - Len(p) + 1) : SubSeq(s, i, i + Len(p) - 1) = p

startswith(s, p) == Len(s) >= Len(p) /\ SubSeq(s, 1, Len(p)) = p

Digit(d) == CASE d = 0 -> "0" [] d = 1 -> "1" [] d = 2 -> "2" [] d = 3 -> "3"
              [] d = 4 -> "4" [] d = 5 -> "5" [] d = 6 -> "6" [] d = 7 -> "7"
              [] d = 8 -> "8" [] d = 9 -> "9"

RECURSIVE StrNat(_)
StrNat(n) == IF n < 10 THEN <<Digit(n)>> ELSE Append(StrNat(n \div 10), Digit(n % 10))

\* str(n) of an integer
str(n) == IF n < 0 THEN <<"-">> \o StrNat(0 - n) ELSE StrNat(n)

DigitVal(c) == CASE c = "0" -> 0 [] c = "1" -> 1 [] c = "2" -> 2 [] c = "3" -> 3
                 [] c = "4" -> 4 [] c = "5" -> 5 [] c = "6" -> 6 [] c = "7" -> 7
                 [] c = "8" -> 8 [] c = "9" -> 9 [] OTHER -> -1

RECURSIVE NatOf(_)
NatOf(s) == IF Len(s) = 0 THEN 0
            ELSE 10 * NatOf(SubSeq(s, 1, Len(s) - 1)) + DigitVal(s[Len(s)])

IsDigits(s) == Len(s) > 0 /\ \A i \in 1..Len(s) : DigitVal(s[i]) >= 0

\* int(s): [ok, v]; ok is FALSE where Python raises ValueError
int(s) ==
    IF IsDigits(s) THEN [ok |-> TRUE, v |-> NatOf(s)]
    ELSE IF Len(s) > 1 /\ s[1] = "-" /\ IsDigits(Tail(s))
         THEN [ok |-> TRUE, v |-> 0 - NatOf(Tail(s))]
    ELSE [ok |-> FALSE, v |-> 0]

\* lexicographic order of two texts of digits, as sorted() orders str keys
RECURSIVE StrLess(_, _)
StrLess(a, b) ==
    IF Len(b) = 0 THEN FALSE
    ELSE IF Len(a) = 0 THEN TRUE
    ELSE IF a[1] # b[1] THEN DigitVal(a[1]) < DigitVal(b[1])
    ELSE StrLess(Tail(a), Tail(b))

CPU == <<"c", "p", "u">>
CUDA == <<"c", "u", "d", "a">>
XLA == <<"x", "l", "a">>

----------------------------------------------------------------------------
(* Program constants *)

\* 0x1950a86a20f9469cfc6c, as its ten bytes
MAGIC_NUMBER == <<25, 80, 168, 106, 32, 249, 70, 156, 252, 108>>

PROTOCOL_VERSION == 1002

\* the number of leading bytes read_first_bytes stops at
HeaderLen == 4

\* _is_zipfile's zip magic numbers: "PK\x03\x04", "PK\x05\x06", "PK\x07\x08"
magic_numbers == << <<80, 75, 3, 4>>, <<80, 75, 5, 6>>, <<80, 75, 7, 8>> >>

\* the text _is_legacy_picklefile compares with: the str 'b\x80\x02'
PickleMarkerLiteral == [t |-> "str", v |-> <<98, 128, 2>>]

\* the two bytes a protocol-2 pickle stream starts with
PICKLE_MARKER == <<128, 2>>

REMEDIATION == <<". You can only torch.load from a file that is seekable.",
                 " Please pre-load the data into a buffer like io.BytesIO and",
                 " try to load from it instead.">>

UNKNOWN_FILE_TYPE ==
    Exc("RuntimeError",
        <<"Unknown file type (expected a legacy tar file, legacy pickle file, or zip file)">>)

----------------------------------------------------------------------------
(* Format dispatch *)

\* == of two Python values: values of different types are unequal
PyEq(a, b) == a.t = b.t /\ a.v = b.v

\* f.read(1) with the stream at offset i - 1: str on Python 2, bytes on Python 3
read1(stream, pyv, i) ==
    [t |-> IF pyv = 2 THEN "str" ELSE "bytes",
     v |-> IF i <= Len(stream.head) THEN <<stream.head[i]>> ELSE <<>>]

RECURSIVE read_loop(_, _, _, _)
read_loop(stream, pyv, read_bytes, i) ==
    LET byte == read1(stream, pyv, i) IN
    IF PyEq(byte, [t |-> "str", v |-> <<>>]) THEN read_bytes
    ELSE LET rb == Append(read_bytes, byte) IN
         IF Len(rb) = HeaderLen THEN rb ELSE read_loop(stream, pyv, rb, i + 1)

\* the list read_first_bytes returns; n is not used
read_first_bytes(stream, pyv, n) == read_loop(stream, pyv, <<>>, 1)

\* the f.read(1) calls one read_first_bytes makes
ReadCalls(stream, pyv) ==
    LET k == Len(read_first_bytes(stream, pyv, HeaderLen)) IN
    IF k = HeaderLen THEN k ELSE k + 1

\* one magic number against the bytes read, pairwise to the shorter of the two:
\* "True", "False", or "TypeError" (ord of an empty byte string)
RECURSIVE match_magic(_, _, _)
match_magic(magic_number, read_bytes, i) ==
    IF i > Len(magic_number) \/ i > Len(read_bytes) THEN "True"
    ELSE IF Len(read_bytes[i].v) # 1 THEN "TypeError"
    ELSE IF magic_number[i] # read_bytes[i].v[1] THEN "False"
    ELSE match_magic(magic_number, read_bytes, i + 1)

RECURSIVE zip_scan(_, _)
zip_scan(read_bytes, k) ==
    IF k > Len(magic_numbers) THEN "False"
    ELSE LET m == match_magic(magic_numbers[k], read_bytes, 1) IN
         IF m = "False" THEN zip_scan(read_bytes, k + 1) ELSE m

_is_zipfile(stream, pyv) == zip_scan(read_first_bytes(stream, pyv, 4), 1)

_is_legacy_picklefile(stream, pyv) ==
    PyEq([t |-> "list", v |-> read_first_bytes(stream, pyv, 2)], PickleMarkerLiteral)

_is_compressed_file(stream) == stream.src = "gzip"

\* f.fileno() >= 0, False for a compressed file or when fileno is missing or unsupported
_should_read_directly(stream) ==
    IF _is_compressed_file(stream) THEN FALSE
    ELSE stream.src = "file"

\* _check_seekable without its message: the exception goes on as it came
_check_seekable_plain(stream) == stream.seek_exc

\* the exception _check_seekable leaves load with, NoErr when f.seek(f.tell()) works
_check_seekable(stream) ==
    LET e == stream.seek_exc IN
    IF e = NoErr THEN NoErr
    ELSE IF e.type \in {"UnsupportedOperation", "AttributeError"}
         THEN IF Contains(<<"s", "e", "e", "k">>, e.msg) \/ Contains(<<"t", "e", "l", "l">>, e.msg)
              THEN Exc(e.type, e.msg \o REMEDIATION)
              ELSE e
    ELSE e

----------------------------------------------------------------------------
(* Storages on the heap of one load *)

\* a storage of `size` elements whose memory has not been written yet
Uninitialized(size) == [i \in 1..size |-> -1]

NewStorage(type, module, device, size, data) ==
    [type |-> type, module |-> module, device |-> device, size |-> size,
     data |-> data, base |-> 0, offset |-> 0]

\* storage[offset:offset + size]: a storage over the same memory as `base`
SliceStorage(h, base, offset, size) ==
    [type |-> h[base].type, module |-> h[base].module, device |-> h[base].device,
     size |-> size, data |-> <<>>, base |-> base, offset |-> offset]

\* the elements a storage instance holds
RECURSIVE Content(_, _)
Content(h, inst) ==
    IF h[inst].base = 0 THEN h[inst].data
    ELSE LET b == Content(h, h[inst].base) IN
         SubSeq(b, h[inst].offset + 1,
                IF h[inst].offset + h[inst].size < Len(b)
                THEN h[inst].offset + h[inst].size ELSE Len(b))

----------------------------------------------------------------------------
(* Location registry *)

Entry(priority, tagger, deserializer) ==
    [priority |-> priority, tagger |-> tagger, deserializer |-> deserializer]

\* rank of a function object in Python 2's arbitrary but total order of functions
FnRank(fn) ==
    CASE fn = "_cpu_tag" -> 1 [] fn = "_cuda_tag" -> 2 [] fn = "xla_tag" -> 3
      [] fn = "_cpu_deserialize" -> 4 [] fn = "_cuda_deserialize" -> 5
      [] fn = "xla_deserialize" -> 6 [] OTHER -> 7

\* a < b of two registry tuples: "True", "False", or "TypeError"
\* (Python 3 does not order function objects)
TupleLess(a, b, pyv) ==
    IF a.priority # b.priority THEN (IF a.priority < b.priority THEN "True" ELSE "False")
    ELSE IF a.tagger # b.tagger
         THEN (IF pyv = 3 THEN "TypeError"
               ELSE IF FnRank(a.tagger) < FnRank(b.tagger) THEN "True" ELSE "False")
    ELSE IF a.deserializer # b.deserializer
         THEN (IF pyv = 3 THEN "TypeError"
               ELSE IF FnRank(a.deserializer) < FnRank(b.deserializer) THEN "True" ELSE "False")
    ELSE "False"

\* some comparison list.sort() has to make raises
SortRaises(q, pyv) ==
    \E i, j \in 1..Len(q) : i # j /\ TupleLess(q[i], q[j], pyv) = "TypeError"

IsSorted(q, pyv) ==
    \A i \in 1..(Len(q) - 1) : TupleLess(q[i + 1], q[i], pyv) = "False"

IsPermutation(p, q) ==
    /\ Len(p) = Len(q)
    /\ \E m \in [1..Len(q) -> 1..Len(q)] :
          /\ \A i, j \in 1..Len(q) : i # j => m[i] # m[j]
          /\ \A i \in 1..Len(q) : p[i] = q[m[i]]

\* insert e into the sorted list q after every element that is not greater (stable)
RECURSIVE InsertSorted(_, _, _)
InsertSorted(q, e, pyv) ==
    IF Len(q) = 0 THEN <<e>>
    ELSE IF TupleLess(e, q[Len(q)], pyv) = "True"
         THEN Append(InsertSorted(SubSeq(q, 1, Len(q) - 1), e, pyv), q[Len(q)])
         ELSE Append(q, e)

RECURSIVE sort(_, _)
sort(q, pyv) ==
    IF Len(q) = 0 THEN <<>>
    ELSE InsertSorted(sort(SubSeq(q, 1, Len(q) - 1), pyv), q[Len(q)], pyv)

\* the registry as the module leaves it after import (lines 157-158)
BuiltinRegistry ==
    <<Entry(10, "_cpu_tag", "_cpu_deserialize"), Entry(20, "_cuda_tag", "_cuda_deserialize")>>

\* A deserializer's answer: [heap, r, err]; r = 0 is None
Answer(h, r, e) == [heap |-> h, r |-> r, err |-> e]

_cpu_deserialize(h, inst, location) ==
    IF location = CPU THEN Answer(h, inst, NoErr) ELSE Answer(h, 0, NoErr)

\* lines 132-136
CUDA_UNAVAILABLE ==
    Exc("RuntimeError",
        <<"Attempting to deserialize object on a CUDA ",
          "device but torch.cuda.is_available() is False. ",
          "If you are running on a CPU-only machine, ",
          "please use torch.load with map_location=torch.device('cpu') ",
          "to map your storages to the CPU.">>)

\* lines 138-142
cuda_index_error(device, count) ==
    Exc("RuntimeError",
        <<"Attempting to deserialize object on CUDA device ">> \o str(device)
        \o <<" but torch.cuda.device_count() is ">> \o str(count)
        \o <<". Please use torch.load with map_location to map your storages ",
             "to an existing device.">>)

\* check_cuda_device with the device count looked at before the availability
check_cuda_device_count_first(device, env) ==
    IF device >= env.count
    THEN [err |-> cuda_index_error(device, env.count), device |-> device]
    ELSE IF ~env.available
    THEN [err |-> CUDA_UNAVAILABLE, device |-> device]
    ELSE [err |-> NoErr, device |-> device]

\* lines 131-143, with the device index of lines 126-129: [err, device]
check_cuda_device(device, env) ==
    IF ~env.available
    THEN [err |-> CUDA_UNAVAILABLE, device |-> device]
    ELSE IF device >= env.count
    THEN [err |-> cuda_index_error(device, env.count), device |-> device]
    ELSE [err |-> NoErr, device |-> device]

\* lines 126-129 for a tag with an index: max(int(location[5:]), 0)
parsed_cuda_device(n, env) ==
    IF ~n.ok THEN [err |-> Exc("ValueError", <<"invalid literal for int()">>), device |-> 0]
    ELSE check_cuda_device(IF n.v > 0 THEN n.v ELSE 0, env)

\* location[5:]
index_text(location) == SubSeq(location, 6, Len(location))

\* [err, device]
validate_cuda_device(location, env) ==
    IF index_text(location) = <<>> THEN check_cuda_device(0, env)
    ELSE parsed_cuda_device(int(index_text(location)), env)

\* lines 149-154: the storage on the device validate_cuda_device gave
cuda_storage(h, inst, d) ==
    IF d.err # NoErr THEN Answer(h, 0, d.err)
    ELSE Answer(Append(h, NewStorage(h[inst].type, "torch.cuda", d.device,
                                     h[inst].size, Content(h, inst))),
                Len(h) + 1, NoErr)

_cuda_deserialize(h, inst, location, env) ==
    IF startswith(location, CUDA)
    THEN cuda_storage(h, inst, validate_cuda_device(location, env))
    ELSE Answer(h, 0, NoErr)

\* a deserializer a user registered for the tag "xla"
xla_deserialize(h, inst, location) ==
    IF location = XLA THEN Answer(h, inst, NoErr) ELSE Answer(h, 0, NoErr)

call_deserializer(fn, h, inst, location, env) ==
    CASE fn = "_cpu_deserialize" -> _cpu_deserialize(h, inst, location)
      [] fn = "_cuda_deserialize" -> _cuda_deserialize(h, inst, location, env)
      [] OTHER -> xla_deserialize(h, inst, location)

RECURSIVE restore_scan(_, _, _, _, _, _)
\* lines 172-174: the answer `a` of restorer i decides
restore_step(reg, i, h, inst, location, env, a) ==
    IF a.err # NoErr \/ a.r # 0 THEN a
    ELSE restore_scan(reg, i + 1, h, inst, location, env)

restore_scan(reg, i, h, inst, location, env) ==
    IF i > Len(reg)
    THEN Answer(h, 0, Exc("RuntimeError",
                          <<"don't know how to restore data location of ", h[inst].type,
                            " (tagged with ">> \o location \o <<")">>))
    ELSE restore_step(reg, i, h, inst, location, env,
                      call_deserializer(reg[i].deserializer, h, inst, location, env))

default_restore_location(reg, h, inst, location, env) ==
    restore_scan(reg, 1, h, inst, location, env)

\* a function a user passes as map_location
call_map_location(fn, h, inst, location) ==
    IF fn = "lambda storage, loc: storage" THEN Answer(h, inst, NoErr)
    ELSE Answer(h, 0, NoErr)

\* target_location that never looks a tag up in a mapping
target_location_unmapped(ml, location) ==
    IF ml = None \/ ml.t = "dict" THEN location
    ELSE IF ml.t \in {"str", "device"} THEN ml.v
    ELSE location

\* the tag the restorers are asked for: lines 454, 458, 461
target_location(ml, location) ==
    IF ml = None THEN location
    ELSE IF ml.t = "dict"
         THEN (IF location \in DOMAIN ml.v THEN ml.v[location] ELSE location)
    ELSE IF ml.t \in {"str", "device"} THEN ml.v
    ELSE location

\* function_result that asks the registry whatever the user's function answered
function_result_registry(a, reg, h, inst, location, env) ==
    default_restore_location(reg, h, inst, location, env)

\* lines 464-467: the answer `a` of the user's function, or the default
function_result(a, reg, h, inst, location, env) ==
    IF a.err = NoErr /\ a.r = 0 THEN default_restore_location(reg, h, inst, location, env)
    ELSE a

\* the function _get_restore_location(map_location) returns, applied
restore_location(ml, reg, h, inst, location, env) ==
    IF ml # None /\ ml.t = "function"
    THEN function_result(call_map_location(ml.v, h, inst, location),
                         reg, h, inst, location, env)
    ELSE default_restore_location(reg, h, inst, target_location(ml, location), env)

----------------------------------------------------------------------------
(* Containers *)

Member(name, content) == [name |-> name, content |-> content]

TensorName(key) == <<"tensors/">> \o key

HasMember(zf, name) == \E i \in 1..Len(zf) : zf[i].name = name

\* zip_file.open(name, 'r'): the member of that name the directory lists (the last)
ReadMember(zf, name) ==
    zf[CHOOSE i \in 1..Len(zf) :
          /\ zf[i].name = name
          /\ \A j \in (i + 1)..Len(zf) : zf[j].name # name].content

KeyError(name) == Exc("KeyError", <<"There is no item named ">> \o name)

----------------------------------------------------------------------------
(* The current-archive reader, _load *)

NoCount == [alloc |-> 0, remap |-> 0, read |-> 0]

CountOf(cnt, key) == IF key \in DOMAIN cnt THEN cnt[key] ELSE NoCount

Bump(cnt, key, field) ==
    LET c == CountOf(cnt, key) IN
    (key :> [c EXCEPT ![field] = @ + 1]) @@ cnt

\* the state persistent_load works on and leaves: [heap, ls, cnt, r, err]
LoadState(h, ls, cnt, r, e) == [heap |-> h, ls |-> ls, cnt |-> cnt, r |-> r, err |-> e]

\* line 603: _set_from_file reads the member m into the storage
set_from_file(h, inst, ls, cnt, m) ==
    IF m.size # h[inst].size
    THEN LoadState(h, ls, cnt, 0, Exc("RuntimeError", <<"storage has wrong size">>))
    ELSE LoadState([h EXCEPT ![inst].data = m.data], ls, cnt, inst, NoErr)

\* store_and_read without lines 600-603: the member is never read
store_unread(key, ls, cnt, zf, a) ==
    IF a.err # NoErr THEN LoadState(a.heap, ls, cnt, 0, a.err)
    ELSE LoadState(a.heap, (key :> a.r) @@ ls, cnt, a.r, NoErr)

\* lines 599-603: the remapper answered `a`; enter it in the table, read the member
store_and_read(key, ls, cnt, zf, a) ==
    IF a.err # NoErr THEN LoadState(a.heap, ls, cnt, 0, a.err)
    ELSE IF ~HasMember(zf, TensorName(key))
    THEN LoadState(a.heap, (key :> a.r) @@ ls, cnt, 0, KeyError(TensorName(key)))
    ELSE set_from_file(a.heap, a.r, (key :> a.r) @@ ls, Bump(cnt, key, "read"),
                       ReadMember(zf, TensorName(key)))

\* line 598: data_type(size)
allocate(h, saved_id) ==
    Append(h, NewStorage(saved_id.data_type, "torch", -1, saved_id.size,
                         Uninitialized(saved_id.size)))

\* materialize that enters the remapped storage in the table and reads nothing
materialize_unread(saved_id, h, ls, cnt, zf, ml, reg, env) ==
    store_unread(saved_id.key, ls,
                 Bump(Bump(cnt, saved_id.key, "alloc"), saved_id.key, "remap"), zf,
                 restore_location(ml, reg, allocate(h, saved_id), Len(h) + 1,
                                  saved_id.location, env))

\* lines 598-603: allocate, remap, read the member into the storage
materialize(saved_id, h, ls, cnt, zf, ml, reg, env) ==
    store_and_read(saved_id.key, ls, Bump(Bump(cnt, saved_id.key, "alloc"), saved_id.key, "remap"),
                   zf,
                   restore_location(ml, reg, allocate(h, saved_id), Len(h) + 1,
                                    saved_id.location, env))

\* lines 604-611: m is the state with the storage of the key in the table
view_or_storage(saved_id, m) ==
    IF m.err # NoErr THEN m
    ELSE IF saved_id.view_metadata # None
    THEN IF saved_id.view_metadata.v[1] \notin DOMAIN m.ls
         THEN LoadState(Append(m.heap,
                               SliceStorage(m.heap, m.ls[saved_id.key],
                                            saved_id.view_metadata.v[2],
                                            saved_id.view_metadata.v[3])),
                        (saved_id.view_metadata.v[1] :> (Len(m.heap) + 1)) @@ m.ls,
                        m.cnt, Len(m.heap) + 1, NoErr)
         ELSE LoadState(m.heap, m.ls, m.cnt, m.ls[saved_id.view_metadata.v[1]], NoErr)
    ELSE LoadState(m.heap, m.ls, m.cnt, m.ls[saved_id.key], NoErr)

\* persistent_load without the test of line 597: every reference materializes
persistent_load_uncached(saved_id, h, ls, cnt, zf, ml, reg, env) ==
    IF saved_id.typename # "storage"
    THEN LoadState(h, ls, cnt, 0, Exc("RuntimeError", <<"Unknown typename">>))
    ELSE view_or_storage(saved_id, materialize(saved_id, h, ls, cnt, zf, ml, reg, env))

\* lines 586-611
persistent_load(saved_id, h, ls, cnt, zf, ml, reg, env) ==
    IF saved_id.typename # "storage"
    THEN LoadState(h, ls, cnt, 0,
                   Exc("RuntimeError",
                       <<"Unknown typename for persistent_load, expected 'storage', but got: ",
                         saved_id.typename>>))
    ELSE view_or_storage(saved_id,
                         IF saved_id.key \notin DOMAIN ls
                         THEN materialize(saved_id, h, ls, cnt, zf, ml, reg, env)
                         ELSE LoadState(h, ls, cnt, ls[saved_id.key], NoErr))

\* check_metadata without the two comparisons
check_metadata_unvalidated(zf) ==
    IF ~HasMember(zf, <<"metadata.pkl">>) THEN KeyError(<<"metadata.pkl">>)
    ELSE IF ~HasMember(zf, <<"data.pkl">>) THEN KeyError(<<"data.pkl">>)
    ELSE NoErr

\* lines 613-620: the exception the metadata record leaves _load with
check_metadata(zf) ==
    IF ~HasMember(zf, <<"metadata.pkl">>) THEN KeyError(<<"metadata.pkl">>)
    ELSE LET metadata == ReadMember(zf, <<"metadata.pkl">>) IN
         IF metadata.magic_number # MAGIC_NUMBER
         THEN Exc("RuntimeError", <<"Invalid magic number; corrupt file?">>)
         ELSE IF metadata.protocol_version # PROTOCOL_VERSION
         THEN Exc("RuntimeError", <<"Invalid protocol version: ">>
                                  \o str(metadata.protocol_version)
                                  \o <<", expected ">> \o str(PROTOCOL_VERSION))
         ELSE IF ~HasMember(zf, <<"data.pkl">>) THEN KeyError(<<"data.pkl">>)
         ELSE NoErr

\* the graph record of the archive: the tensor views the generic codec decodes, in order
DataPkl(zf) == ReadMember(zf, <<"data.pkl">>)

\* the tensor the generic codec rebuilds over the storage persistent_load returned
RebuiltTensor(node, inst) ==
    [storage |-> inst, storage_offset |-> node.storage_offset,
     size |-> node.size, stride |-> node.stride]

Returned(v) == [t |-> "object", v |-> v]

NotReturned == [t |-> "nothing", v |-> <<>>]

\* load fails: the exception goes to the caller
Raise(e) ==
    /\ err' = e
    /\ pc' = "done"

\* lines 613-623
LoadMetadata ==
    /\ pc = "zip_metadata"
    /\ LET e == check_metadata(zip_file) IN
       IF e # NoErr THEN Raise(e)
       ELSE /\ pc' = "zip_data"
            /\ err' = err
    /\ UNCHANGED <<regVars, envVars, saveVars, f, map_location, zip_file, tar, readers,
                   stream_reads, tmpdir, heap, loaded_storages, io_count, resolved,
                   deserialized_objects, result>>

\* persistent_load left the state s
AfterPersistentLoad(s) ==
    /\ heap' = s.heap
    /\ loaded_storages' = s.ls
    /\ io_count' = s.cnt
    /\ IF s.err # NoErr
       THEN Raise(s.err) /\ resolved' = resolved
       ELSE /\ resolved' = Append(resolved, s.r)
            /\ pc' = pc
            /\ err' = err

\* the unpickler meets the next externalization reference of data.pkl
PersistentLoad ==
    /\ pc = "zip_data"
    /\ Len(resolved) < Len(DataPkl(zip_file))
    /\ AfterPersistentLoad(
           persistent_load(DataPkl(zip_file)[Len(resolved) + 1].storage, heap,
                           loaded_storages, io_count, zip_file, map_location,
                           _package_registry, cuda))
    /\ UNCHANGED <<regVars, envVars, saveVars, f, map_location, zip_file, tar, readers,
                   stream_reads, tmpdir, deserialized_objects, result>>

\* lines 625-627: the unpickler is through the graph record
LoadReturn ==
    /\ pc = "zip_data"
    /\ Len(resolved) = Len(DataPkl(zip_file))
    /\ result' = Returned([i \in 1..Len(resolved) |->
                              RebuiltTensor(DataPkl(zip_file)[i], resolved[i])])
    /\ pc' = "done"
    /\ UNCHANGED <<regVars, envVars, saveVars, f, map_location, zip_file, tar, err, readers,
                   stream_reads, tmpdir, heap, loaded_storages, io_count, resolved,
                   deserialized_objects>>

----------------------------------------------------------------------------
(* The legacy sequential-archive reader, _legacy_tar_load *)

StorageObj(inst) == [kind |-> "storage", inst |-> inst]

\* the state a section of the tar reader works on and leaves
TarState(h, objs, e) == [heap |-> h, objs |-> objs, err |-> e]

RECURSIVE read_storages(_, _, _, _, _, _, _)
\* lines 494-495: the remapper answered `a` for record i
store_storage(recs, i, objs, ml, reg, env, a) ==
    IF a.err # NoErr THEN TarState(a.heap, objs, a.err)
    ELSE read_storages(recs, i + 1, a.heap, (recs[i].key :> StorageObj(a.r)) @@ objs,
                       ml, reg, env)

\* lines 490-495: the buffer records of 'storages'
read_storages(recs, i, h, objs, ml, reg, env) ==
    IF i > Len(recs) THEN TarState(h, objs, NoErr)
    ELSE store_storage(recs, i, objs, ml, reg, env,
                       restore_location(ml, reg,
                                        Append(h, NewStorage(recs[i].storage_type, "torch", -1,
                                                             Len(recs[i].data), recs[i].data)),
                                        Len(h) + 1, recs[i].location, env))

\* lines 497-500: the buffer-view records of 'storages'
RECURSIVE read_views(_, _, _, _)
read_views(storage_views, i, h, objs) ==
    IF i > Len(storage_views) THEN TarState(h, objs, NoErr)
    ELSE IF storage_views[i].root_cdata \notin DOMAIN objs
    THEN TarState(h, objs, Exc("KeyError", str(storage_views[i].root_cdata)))
    ELSE read_views(storage_views, i + 1,
                    Append(h, SliceStorage(h, objs[storage_views[i].root_cdata].inst,
                                           storage_views[i].offset, storage_views[i].size)),
                    (storage_views[i].target_cdata :> StorageObj(Len(h) + 1)) @@ objs)

\* lines 497-500 after lines 490-495
views_after(storage_views, s) ==
    IF s.err # NoErr THEN s ELSE read_views(storage_views, 1, s.heap, s.objs)

\* lines 504-517: the tensor-descriptor records of 'tensors'
RECURSIVE read_tensors(_, _, _, _)
read_tensors(recs, i, h, objs) ==
    IF i > Len(recs) THEN TarState(h, objs, NoErr)
    ELSE IF recs[i].storage_id \notin DOMAIN objs
    THEN TarState(h, objs, Exc("KeyError", str(recs[i].storage_id)))
    ELSE read_tensors(recs, i + 1, h,
                      (recs[i].key :> [kind |-> "tensor",
                                       storage |-> objs[recs[i].storage_id].inst,
                                       storage_offset |-> recs[i].storage_offset,
                                       size |-> recs[i].size,
                                       stride |-> recs[i].stride]) @@ objs)

\* tar.extract(name) / tar.extractfile(name): the exception it raises
extract(status, name) ==
    IF status = "missing" THEN Exc("KeyError", <<"filename ", name, " not found">>)
    ELSE IF status = "corrupt" THEN Exc("TarError", <<"unexpected end of data">>)
    ELSE NoErr

\* all(saved_id[1:]) of a tuple reference
all_sources(saved_id) == \A i \in 2..Len(saved_id.v) : saved_id.v[i] # <<>>

\* lines 476-482: [r, err]. The name _check_container_source is bound nowhere
\* in the module, so the call at line 480 raises NameError.
tar_persistent_load(saved_id, objs) ==
    IF saved_id.t = "tuple"
    THEN IF all_sources(saved_id)
         THEN [r |-> None,
               err |-> Exc("NameError", <<"name '_check_container_source' is not defined">>)]
         ELSE [r |-> [t |-> "class", v |-> saved_id.v[1]], err |-> NoErr]
    ELSE IF saved_id.v \notin DOMAIN objs
         THEN [r |-> None, err |-> Exc("KeyError", str(saved_id.v))]
         ELSE [r |-> [t |-> "object", v |-> objs[saved_id.v]], err |-> NoErr]

\* An exception leaves _legacy_tar_load: mkdtemp's generator is resumed with the
\* exception at its yield and ends there, before shutil.rmtree (lines 37-41).
\* Back in load, lines 443-446: a TarError is caught, _is_legacy_picklefile is
\* asked, and the stream goes to _legacy_pickle_load (which returns None) or
\* load raises the unknown-file-type error.
TarRaise(e) ==
    /\ tmpdir' = tmpdir
    /\ pc' = "done"
    /\ stream_reads' = IF e.type = "TarError" THEN stream_reads + ReadCalls(f, py)
                       ELSE stream_reads
    /\ IF e.type = "TarError"
       THEN IF _is_legacy_picklefile(f, py)
            THEN /\ readers' = readers \cup {"pickle"}
                 /\ result' = Returned(None)
                 /\ err' = err
            ELSE /\ err' = UNKNOWN_FILE_TYPE
                 /\ UNCHANGED <<readers, result>>
       ELSE /\ err' = e
            /\ UNCHANGED <<readers, result>>

\* a section of the reader left the state s: on to `next`, or out with the exception
AfterSection(s, next) ==
    /\ heap' = s.heap
    /\ deserialized_objects' = s.objs
    /\ IF s.err # NoErr THEN TarRaise(s.err)
       ELSE /\ pc' = next
            /\ UNCHANGED <<tmpdir, err, readers, result, stream_reads>>

\* lines 487-500
TarStorages ==
    /\ pc = "tar_storages"
    /\ IF extract(tar.storages, "storages") # NoErr
       THEN AfterSection(TarState(heap, deserialized_objects,
                                  extract(tar.storages, "storages")), pc)
       ELSE AfterSection(views_after(tar.storage_views,
                                     read_storages(tar.storage_recs, 1, heap,
                                                   deserialized_objects, map_location,
                                                   _package_registry, cuda)),
                         "tar_tensors")
    /\ UNCHANGED <<regVars, envVars, saveVars, f, map_location, zip_file, tar,
                   loaded_storages, io_count, resolved>>

\* the error of extractfile('pickle') (line 519) after the tensors section left s
pickle_after(s, status) ==
    IF s.err # NoErr THEN s ELSE TarState(s.heap, s.objs, extract(status, "pickle"))

\* lines 502-519
TarTensors ==
    /\ pc = "tar_tensors"
    /\ IF extract(tar.tensors, "tensors") # NoErr
       THEN AfterSection(TarState(heap, deserialized_objects,
                                  extract(tar.tensors, "tensors")), pc)
       ELSE AfterSection(pickle_after(read_tensors(tar.tensor_recs, 1, heap,
                                                   deserialized_objects),
                                      tar.pickle),
                         "tar_pickle")
    /\ UNCHANGED <<regVars, envVars, saveVars, f, map_location, zip_file, tar,
                   loaded_storages, io_count, resolved>>

\* tar's persistent_load answered s
AfterTarPersistentLoad(s) ==
    IF s.err # NoErr
    THEN TarRaise(s.err) /\ resolved' = resolved
    ELSE /\ resolved' = Append(resolved, s.r)
         /\ UNCHANGED <<pc, tmpdir, err, readers, result, stream_reads>>

\* the unpickler meets the next persistent id of 'pickle'
TarPersistentLoad ==
    /\ pc = "tar_pickle"
    /\ Len(resolved) < Len(tar.pickle_ids)
    /\ AfterTarPersistentLoad(
           tar_persistent_load(tar.pickle_ids[Len(resolved) + 1], deserialized_objects))
    /\ UNCHANGED <<regVars, envVars, saveVars, f, map_location, zip_file, tar,
                   heap, loaded_storages, io_count, deserialized_objects>>

\* lines 522-523 and 41: return result leaves the with block, mkdtemp's generator
\* resumes after its yield and removes the directory
TarReturn ==
    /\ pc = "tar_pickle"
    /\ Len(resolved) = Len(tar.pickle_ids)
    /\ result' = Returned(resolved)
    /\ tmpdir' = "removed"
    /\ pc' = "done"
    /\ UNCHANGED <<regVars, envVars, saveVars, f, map_location, zip_file, tar, err, readers,
                   stream_reads, heap, loaded_storages, io_count, resolved,
                   deserialized_objects>>

----------------------------------------------------------------------------
(* load, lines 429-446 *)

\* what load has done when it hands over to a reader or ends:
\* [pc, err, readers, reads, tmpdir, result]
Outcome(p, e, r, n, t, res) ==
    [pc |-> p, err |-> e, readers |-> r, reads |-> n, tmpdir |-> t, result |-> res]

load(stream, pyv) ==
    LET seekable == _check_seekable(stream)
        zip == _is_zipfile(stream, pyv)
        n == ReadCalls(stream, pyv)
    IN  IF seekable # NoErr THEN Outcome("done", seekable, {}, 0, "none", NotReturned)
        ELSE IF zip = "TypeError"
        THEN Outcome("done", Exc("TypeError", <<"ord() expected a character">>), {}, n,
                     "none", NotReturned)
        ELSE IF zip = "True"
        THEN IF stream.kind = "zip"
             THEN Outcome("zip_metadata", NoErr, {"zip"}, n, "none", NotReturned)
             ELSE Outcome("done", Exc("BadZipFile", <<"File is not a zip file">>), {"zip"}, n,
                          "none", NotReturned)
        ELSE IF _should_read_directly(stream) /\ stream.pos = 0
        THEN IF stream.kind = "tar"
             THEN Outcome("tar_storages", NoErr, {"tar"}, n, "exists", NotReturned)
             ELSE IF _is_legacy_picklefile(stream, pyv)
             THEN Outcome("done", NoErr, {"pickle"}, n + ReadCalls(stream, pyv), "none",
                          Returned(None))
             ELSE Outcome("done", UNKNOWN_FILE_TYPE, {}, n + ReadCalls(stream, pyv), "none",
                          NotReturned)
        ELSE Outcome("done", UNKNOWN_FILE_TYPE, {}, n, "none", NotReturned)

Load ==
    /\ pc = "load"
    /\ LET o == load(f, py) IN
       /\ pc' = o.pc
       /\ err' = o.err
       /\ readers' = o.readers
       /\ stream_reads' = o.reads
       /\ tmpdir' = o.tmpdir
       /\ result' = o.result
    /\ UNCHANGED <<regVars, envVars, saveVars, f, map_location, zip_file, tar, heap,
                   loaded_storages, io_count, resolved, deserialized_objects>>

----------------------------------------------------------------------------
(* save and _save *)

_cpu_tag(storage) == IF storage.module = "torch" THEN CPU ELSE <<>>

_cuda_tag(storage) ==
    IF storage.module = "torch.cuda" THEN CUDA \o <<":">> \o str(storage.device) ELSE <<>>

\* a tagger a user registered for storages of an "xla" runtime
xla_tag(storage) == IF storage.module = "torch_xla" THEN XLA ELSE <<>>

\* a tagger a user registered to place every storage on the "xla" runtime
any_tag(storage) == XLA

\* a tagger's answer; the empty text stands for None and for ''
call_tagger(fn, storage) ==
    CASE fn = "_cpu_tag" -> _cpu_tag(storage)
      [] fn = "_cuda_tag" -> _cuda_tag(storage)
      [] fn = "any_tag" -> any_tag(storage)
      [] OTHER -> xla_tag(storage)

\* the taggers of the entries 1..i of the registry: the calls made so far
taggers_called(reg, i) == [k \in 1..i |-> reg[k].tagger]

RECURSIVE tag_scan(_, _, _)
tag_scan(reg, i, storage) ==
    IF i > Len(reg)
    THEN [location |-> <<>>,
          err |-> Exc("RuntimeError",
                      <<"don't know how to determine data location of ", storage.type>>),
          calls |-> taggers_called(reg, Len(reg))]
    ELSE LET location == call_tagger(reg[i].tagger, storage) IN
         IF location # <<>>
         THEN [location |-> location, err |-> NoErr, calls |-> taggers_called(reg, i)]
         ELSE tag_scan(reg, i + 1, storage)

\* [location, err, calls]
location_tag(reg, storage) == tag_scan(reg, 1, storage)

\* obj_key from the last digit of _cdata only
obj_key_short(cdata) == str(cdata % 10)

\* line 311: the key of a storage in the dedup table and in the archive
obj_key(cdata) == str(cdata)

\* lines 314-318
view_metadata_of(cdata, offset, size) ==
    IF cdata # cdata
    THEN [t |-> "tuple", v |-> <<str(cdata), offset, size>>]
    ELSE None

\* lines 300-326: [id, err, table, calls]; id = None for what is not a storage
persistent_id(o, sts, table, reg) ==
    IF o.t = "storage"
    THEN LET storage == sts[o.v]
             loc == location_tag(reg, storage)
         IN  IF loc.err # NoErr
             THEN [id |-> None, err |-> loc.err, table |-> table, calls |-> loc.calls]
             ELSE [id |-> [typename |-> "storage",
                           data_type |-> storage.type,
                           key |-> obj_key(o.v),
                           location |-> loc.location,
                           size |-> storage.size,
                           view_metadata |-> view_metadata_of(o.v, 0, storage.size)],
                   err |-> NoErr,
                   table |-> (obj_key(o.v) :> o.v) @@ table,
                   calls |-> loc.calls]
    ELSE [id |-> None, err |-> NoErr, table |-> table, calls |-> <<>>]

\* line 292: what _open_zipfile_like hands to _save: a ZipFile opened on the path,
\* or the object it was given
open_zipfile_like(d) == IF d = "path" THEN "ZipFile" ELSE "stream"

\* zip_file.open(name, 'w') on what _save was handed
open_for_write(handle) ==
    IF handle = "ZipFile" THEN NoErr
    ELSE Exc("AttributeError", <<"object has no attribute 'open'">>)

SaveRaise(e) ==
    /\ save_err' = e
    /\ spc' = "done"

\* lines 328-345
SaveMetadata ==
    /\ spc = "save"
    /\ LET e == open_for_write(open_zipfile_like(dest)) IN
       IF e # NoErr THEN SaveRaise(e) /\ written' = written
       ELSE /\ written' = Append(written,
                                 Member(<<"metadata.pkl">>,
                                        [magic_number |-> MAGIC_NUMBER,
                                         protocol_version |-> PROTOCOL_VERSION]))
            /\ spc' = "pickle"
            /\ save_err' = save_err
    /\ UNCHANGED <<regVars, envVars, loadVars, obj, storages, dest, serialized_storages,
                   data_pkl, tagger_calls>>

\* lines 347-350: the pickler meets the next tensor of the graph and its storage
SavePersistentId ==
    /\ spc = "pickle"
    /\ Len(data_pkl) < Len(obj)
    /\ LET tensor == obj[Len(data_pkl) + 1]
           t == persistent_id([t |-> "tensor", v |-> tensor], storages,
                              serialized_storages, _package_registry)
           p == persistent_id([t |-> "storage", v |-> tensor.storage], storages,
                              t.table, _package_registry)
       IN  /\ tagger_calls' = p.calls
           /\ IF p.err # NoErr
              THEN SaveRaise(p.err) /\ UNCHANGED <<data_pkl, serialized_storages>>
              ELSE /\ data_pkl' = Append(data_pkl,
                                         [storage |-> p.id,
                                          storage_offset |-> tensor.storage_offset,
                                          size |-> tensor.size,
                                          stride |-> tensor.stride])
                   /\ serialized_storages' = p.table
                   /\ UNCHANGED <<spc, save_err>>
    /\ UNCHANGED <<regVars, envVars, loadVars, obj, storages, dest, written>>

\* line 350 returns: data.pkl is complete
SaveData ==
    /\ spc = "pickle"
    /\ Len(data_pkl) = Len(obj)
    /\ written' = Append(written, Member(<<"data.pkl">>, data_pkl))
    /\ spc' = "tensors"
    /\ UNCHANGED <<regVars, envVars, loadVars, obj, storages, dest, save_err,
                   serialized_storages, data_pkl, tagger_calls>>

\* the keys of the table that have no member yet
Unwritten(table, w) == {k \in DOMAIN table : ~HasMember(w, TensorName(k))}

\* the next key of sorted(serialized_storages.keys())
NextKey(table, w) ==
    CHOOSE k \in Unwritten(table, w) : \A o \in Unwritten(table, w) : ~StrLess(o, k)

\* lines 352-354, one turn of the loop
SaveTensor ==
    /\ spc = "tensors"
    /\ Unwritten(serialized_storages, written) # {}
    /\ LET key == NextKey(serialized_storages, written)
           storage == storages[serialized_storages[key]]
       IN  written' = Append(written,
                             Member(TensorName(key),
                                    [size |-> storage.size, data |-> storage.data]))
    /\ UNCHANGED <<regVars, envVars, loadVars, obj, storages, dest, spc, save_err,
                   serialized_storages, data_pkl, tagger_calls>>

\* the loop is through; line 293 returns and the ZipFile is closed
SaveReturn ==
    /\ spc = "tensors"
    /\ Unwritten(serialized_storages, written) = {}
    /\ spc' = "done"
    /\ UNCHANGED <<regVars, envVars, loadVars, obj, storages, dest, save_err,
                   serialized_storages, data_pkl, tagger_calls, written>>

\* load is called with the path save has written to: _open_file_like opens the
\* file, whose first bytes are the local file header of its first member
LoadSaved ==
    /\ spc = "done"
    /\ save_err = NoErr
    /\ pc = "idle"
    /\ f' = [head |-> magic_numbers[1], more |-> TRUE, kind |-> "zip", src |-> "file",
             pos |-> 0, seek_exc |-> NoErr]
    /\ zip_file' = written
    /\ pc' = "load"
    /\ UNCHANGED <<regVars, envVars, saveVars, map_location, tar, err, readers, stream_reads,
                   tmpdir, heap, loaded_storages, io_count, resolved, deserialized_objects,
                   result>>

----------------------------------------------------------------------------
(* register_package, lines 100-103 *)

\* the orders of a list
Orders(q) ==
    {[i \in 1..Len(q) |-> q[m[i]]] :
        m \in {g \in [1..Len(q) -> 1..Len(q)] : \A i, j \in 1..Len(q) : i # j => g[i] # g[j]}}

\* The lists _package_registry.sort() can leave. When a comparison raises, the
\* sort fails and leaves the elements in an order Python does not specify.
sorted_registry(q, pyv) ==
    IF SortRaises(q, pyv) THEN Orders(q) ELSE {sort(q, pyv)}

sort_error(q, pyv) ==
    IF SortRaises(q, pyv)
    THEN Exc("TypeError", <<"'<' not supported between instances of 'function' and 'function'">>)
    ELSE NoErr

register_package(priority, tagger, deserializer) ==
    LET queue_elem == Entry(priority, tagger, deserializer)
        appended == Append(_package_registry, queue_elem)
    IN  /\ _package_registry' \in sorted_registry(appended, py)
        /\ reg_err' = sort_error(appended, py)
        /\ reg_calls' = Append(reg_calls, queue_elem)

----------------------------------------------------------------------------
(* Bounds and inputs *)

MaxRefs == 3        \* references in the graph record of a zip archive given to load
MaxTarIds == 2      \* persistent ids in the graph record of a tar archive
MaxViews == 3       \* tensor views in the object graph given to save
MaxRegister == 2    \* register_package calls after the two built-in ones
MaxTagged == 2      \* references, each with its own key and tag, in a graph record

EmptyMap == [x \in {} |-> x]

ByteVals == {80, 75, 3, 4, 128, 2}

\* the leading bytes of a stream: all of a stream shorter than HeaderLen bytes
Heads == UNION {[1..n -> ByteVals] : n \in 0..HeaderLen}

Stream(head, more, kind, src, pos, exc) ==
    [head |-> head, more |-> more, kind |-> kind, src |-> src, pos |-> pos, seek_exc |-> exc]

\* src: a file opened from disk, a gzip file object, an in-memory buffer
\* (fileno is unsupported), an object without fileno.
\* kind: what the container libraries make of the whole stream.
Sources == {"file", "gzip", "BytesIO", "object"}

SeekableStreams ==
    {st \in {Stream(h, m, k, s, p, NoErr) :
                h \in Heads, m \in BOOLEAN, k \in {"raw", "zip", "tar"},
                s \in Sources, p \in {0, 1}} :
        /\ st.more => Len(st.head) = HeaderLen
        /\ st.kind # "raw" => st.more}

SeekMessages ==
    {<<"s", "e", "e", "k">>, <<"t", "e", "l", "l">>,
     <<"n", "o", "t", " ", "s", "e", "e", "k", "a", "b", "l", "e">>,
     <<"n", "o", "t", " ", "s", "u", "p", "p", "o", "r", "t", "e", "d">>}

UnseekableStreams ==
    {st \in {Stream(h, Len(h) = HeaderLen, k, s, 0, Exc(t, m)) :
                h \in {<<>>, magic_numbers[1], PICKLE_MARKER}, k \in {"raw", "zip"},
                s \in Sources, t \in {"UnsupportedOperation", "AttributeError", "ValueError"},
                m \in SeekMessages} :
        st.kind # "raw" => st.more}

Keys == {<<"1">>, <<"2">>, <<"3">>}

Ref(typename, key, location, vm) ==
    [typename |-> typename, data_type |-> "FloatStorage", key |-> key,
     location |-> location, size |-> 2, view_metadata |-> vm]

Node(ref) == [storage |-> ref, storage_offset |-> 0, size |-> <<2>>, stride |-> <<1>>]

\* the references a graph record can hold: roots and views over two stored keys,
\* one tagged with a location nothing restores, one of an unknown kind
Refs ==
    {Ref("storage", k, CPU, vm) :
        k \in {<<"1">>, <<"2">>},
        vm \in {None} \cup {[t |-> "tuple", v |-> <<vk, 1, 1>>] : vk \in Keys}}
    \cup {Ref("storage", <<"2">>, XLA, None), Ref("module", <<"1">>, CPU, None)}

Seqs(S, n) == UNION {[1..k -> S] : k \in 0..n}

GoodMetadata == [magic_number |-> MAGIC_NUMBER, protocol_version |-> PROTOCOL_VERSION]

TensorMember(key) ==
    Member(TensorName(key), [size |-> 2, data |-> <<10 + NatOf(key), 20 + NatOf(key)>>])

RECURSIVE TensorMembers(_)
TensorMembers(keys) ==
    IF keys = {} THEN <<>>
    ELSE LET k == CHOOSE x \in keys : \A o \in keys : ~StrLess(o, x) IN
         <<TensorMember(k)>> \o TensorMembers(keys \ {k})

Archive(metadata, data, keys) ==
    <<Member(<<"metadata.pkl">>, metadata), Member(<<"data.pkl">>, data)>>
    \o TensorMembers(keys)

CanonicalZip ==
    Archive(GoodMetadata,
            <<Node(Ref("storage", <<"1">>, CPU, None)), Node(Ref("storage", <<"1">>, CPU, None))>>,
            {<<"1">>})

\* MAGIC_NUMBER with one byte changed
FlippedMagics ==
    {[MAGIC_NUMBER EXCEPT ![i] = (@ + d) % 256] : i \in 1..Len(MAGIC_NUMBER), d \in {1, 128}}

ZipArchives ==
    {Archive(GoodMetadata, d, ks) :
        d \in Seqs({Node(r) : r \in Refs}, MaxRefs),
        ks \in {{<<"1">>, <<"2">>}, {<<"1">>}}}
    \cup {Archive([magic_number |-> m, protocol_version |-> v], CanonicalZip[2].content,
                  {<<"1">>}) :
            m \in FlippedMagics \cup {MAGIC_NUMBER},
            v \in {PROTOCOL_VERSION - 1, PROTOCOL_VERSION, PROTOCOL_VERSION + 1}}
    \cup {Tail(CanonicalZip)}

NoTar == [storages |-> "missing", storage_recs |-> <<>>, storage_views |-> <<>>,
          tensors |-> "missing", tensor_recs |-> <<>>, pickle |-> "missing",
          pickle_ids |-> <<>>]

StorageRec(key, location) ==
    [key |-> key, location |-> location, storage_type |-> "FloatStorage", data |-> <<7, 8>>]

ViewRec(target, root) ==
    [target_cdata |-> target, root_cdata |-> root, offset |-> 1, size |-> 1]

TensorRec(key, storage_id) ==
    [key |-> key, storage_id |-> storage_id, storage_offset |-> 0,
     size |-> <<2>>, stride |-> <<1>>]

\* persistent ids of the graph record: ids of the object table, a class without
\* saved source, a class with saved source
TarIds ==
    {[t |-> "int", v |-> 0], [t |-> "int", v |-> 2], [t |-> "int", v |-> 9],
     [t |-> "tuple", v |-> <<"Linear", <<>>, <<>> >>],
     [t |-> "tuple", v |-> <<"Linear", <<"linear.py">>, <<"class Linear">> >>]}

TarArchives ==
    {[storages |-> s, storage_recs |-> sr, storage_views |-> sv, tensors |-> t,
      tensor_recs |-> tr, pickle |-> p, pickle_ids |-> ids] :
        s \in {"ok", "missing", "corrupt"},
        sr \in Seqs({StorageRec(0, CPU), StorageRec(0, XLA)}, 1),
        sv \in Seqs({ViewRec(1, 0), ViewRec(1, 5)}, 1),
        t \in {"ok", "missing"},
        tr \in Seqs({TensorRec(2, 0), TensorRec(2, 1), TensorRec(2, 7)}, 1),
        p \in {"ok", "missing"},
        ids \in Seqs(TarIds, MaxTarIds)}

CanonicalTar ==
    [storages |-> "ok", storage_recs |-> <<StorageRec(0, CPU)>>, storage_views |-> <<>>,
     tensors |-> "ok", tensor_recs |-> <<TensorRec(2, 0)>>, pickle |-> "ok",
     pickle_ids |-> <<[t |-> "int", v |-> 2]>>]

NoCuda == [available |-> FALSE, count |-> 0]

MapLocations == {None, [t |-> "function", v |-> "lambda storage, loc: storage"],
                 [t |-> "function", v |-> "lambda storage, loc: None"]}

\* the tag of accelerator device n
CudaTag(n) == CUDA \o <<":">> \o str(n)

\* the tags a stored reference can carry
Tags == {CPU, CUDA, CudaTag(0), CudaTag(1), CudaTag(-1), XLA}

\* runtimes: no accelerator, one device, two devices
CudaEnvs == {NoCuda, [available |-> TRUE, count |-> 1], [available |-> TRUE, count |-> 2]}

\* graph records of n references, the i-th with key str(i), each with a tag
TaggedData(n) ==
    {[i \in 1..n |-> Node(Ref("storage", str(i), t[i], None))] : t \in [1..n -> Tags]}

TaggedArchives ==
    UNION {{Archive(GoodMetadata, d, {str(i) : i \in 1..n}) : d \in TaggedData(n)} :
              n \in 0..MaxTagged}

Dict(d) == [t |-> "dict", v |-> d]

\* remap requests: none, tag-to-tag mappings, two-argument functions
RemapRequests ==
    MapLocations
    \cup {Dict(CudaTag(0) :> CPU), Dict(CPU :> CudaTag(1)),
          Dict((CudaTag(0) :> CudaTag(1)) @@ (XLA :> CPU))}

----------------------------------------------------------------------------
(* Initial states *)

\* the registry after import
InitRegistry ==
    /\ _package_registry = BuiltinRegistry
    /\ reg_calls = BuiltinRegistry
    /\ reg_err = NoErr

\* no save is under way
IdleSave ==
    /\ obj = <<>>
    /\ storages = EmptyMap
    /\ dest = "none"
    /\ spc = "idle"
    /\ save_err = NoErr
    /\ serialized_storages = EmptyMap
    /\ data_pkl = <<>>
    /\ tagger_calls = <<>>
    /\ written = <<>>

\* load has done nothing yet
FreshLoad ==
    /\ err = NoErr
    /\ readers = {}
    /\ stream_reads = 0
    /\ tmpdir = "none"
    /\ heap = <<>>
    /\ loaded_storages = EmptyMap
    /\ io_count = EmptyMap
    /\ resolved = <<>>
    /\ deserialized_objects = EmptyMap
    /\ result = NotReturned

\* load is called on a stream
InitStream(streams, zips, tars, mls) ==
    /\ f \in streams
    /\ zip_file \in (IF f.kind = "zip" THEN zips ELSE {<<>>})
    /\ tar \in (IF f.kind = "tar" THEN tars ELSE {NoTar})
    /\ map_location \in mls
    /\ pc = "load"
    /\ FreshLoad

\* load on any stream, over one archive of each kind
InitDispatch ==
    /\ py \in {2, 3}
    /\ cuda = NoCuda
    /\ InitRegistry
    /\ IdleSave
    /\ InitStream(SeekableStreams \cup UnseekableStreams, {CanonicalZip}, {CanonicalTar}, {None})

\* load on a zip archive of any content
InitZip ==
    /\ py = 3
    /\ cuda = NoCuda
    /\ InitRegistry
    /\ IdleSave
    /\ InitStream({Stream(magic_numbers[1], TRUE, "zip", "file", 0, NoErr)},
                  ZipArchives, {NoTar}, MapLocations)

\* load on a zip archive of tagged storages, with a remap request, on a runtime
InitRestore ==
    /\ py = 3
    /\ cuda \in CudaEnvs
    /\ InitRegistry
    /\ IdleSave
    /\ InitStream({Stream(magic_numbers[1], TRUE, "zip", "file", 0, NoErr)},
                  TaggedArchives, {NoTar}, RemapRequests)

\* load on a tar archive of any content
InitTar ==
    /\ py \in {2, 3}
    /\ cuda = NoCuda
    /\ InitRegistry
    /\ IdleSave
    /\ InitStream({Stream(<<115, 116, 111, 114>>, TRUE, "tar", "file", 0, NoErr)},
                  {<<>>}, TarArchives, {None})

CDatas == {9, 10, 20}

TensorViews ==
    {[storage |-> c, storage_offset |-> o, size |-> <<2 - o>>, stride |-> <<1>>] :
        c \in CDatas, o \in {0, 1}}

\* a root storage: root is its own _cdata
MemStorage(cdata, module) ==
    [type |-> "FloatStorage", module |-> module, device |-> IF module = "torch" THEN -1 ELSE 0,
     size |-> 2, data |-> <<cdata, cdata + 1>>, root |-> cdata, root_offset |-> 0]

\* root[offset:offset + size], a storage over a sub-range of another storage
SliceOf(cdata, root, offset, size) ==
    [MemStorage(cdata, root.module) EXCEPT
        !.size = size,
        !.data = SubSeq(root.data, offset + 1, offset + size),
        !.root = root.root,
        !.root_offset = offset]

\* the storages of the graph: all on the CPU, or one of them on an accelerator
\* or in a runtime no tagger knows
StorageMaps ==
    {[c \in CDatas |-> MemStorage(c, IF c = 20 THEN m ELSE "torch")] :
        m \in {"torch", "torch.cuda", "numpy"}}

\* save is called on an object graph
InitSave ==
    /\ py \in {2, 3}
    /\ cuda \in {NoCuda, [available |-> TRUE, count |-> 1]}
    /\ InitRegistry
    /\ obj \in Seqs(TensorViews, MaxViews)
    /\ storages \in StorageMaps
    /\ dest \in {"path", "stream"}
    /\ spc = "save"
    /\ save_err = NoErr
    /\ serialized_storages = EmptyMap
    /\ data_pkl = <<>>
    /\ tagger_calls = <<>>
    /\ written = <<>>
    /\ f = Stream(<<>>, FALSE, "raw", "file", 0, NoErr)
    /\ zip_file = <<>>
    /\ tar = NoTar
    /\ map_location = None
    /\ pc = "idle"
    /\ FreshLoad

Priorities == {5, 10, 20, 30}

\* the process registers packages
InitRegister ==
    /\ py \in {2, 3}
    /\ cuda = NoCuda
    /\ InitRegistry
    /\ IdleSave
    /\ f = Stream(<<>>, FALSE, "raw", "file", 0, NoErr)
    /\ zip_file = <<>>
    /\ tar = NoTar
    /\ map_location = None
    /\ pc = "idle"
    /\ FreshLoad

Register ==
    /\ Len(reg_calls) < Len(BuiltinRegistry) + MaxRegister
    /\ \E priority \in Priorities, tagger \in {"_cpu_tag", "xla_tag", "any_tag"},
          deserializer \in {"_cpu_deserialize", "xla_deserialize"} :
          register_package(priority, tagger, deserializer)
    /\ UNCHANGED <<envVars, loadVars, saveVars>>

\* the storages of a graph saved after registrations: one of them on the CPU, on
\* an accelerator, in the runtime a user's tagger knows, or in one no built-in knows
TaggedStorageMaps ==
    {[c \in CDatas |-> MemStorage(c, IF c = 20 THEN m ELSE "torch")] :
        m \in {"torch", "torch.cuda", "torch_xla", "numpy"}}

\* storage 10 is the slice [1:2] of storage 9
SlicedStorages ==
    [c \in CDatas |-> IF c = 10 THEN SliceOf(10, MemStorage(9, "torch"), 1, 1)
                      ELSE MemStorage(c, "torch")]

\* tensors over a root storage and over a slice of it
SlicedTensors ==
    {[storage |-> 9, storage_offset |-> 0, size |-> <<2>>, stride |-> <<1>>],
     [storage |-> 9, storage_offset |-> 1, size |-> <<1>>, stride |-> <<1>>],
     [storage |-> 10, storage_offset |-> 0, size |-> <<1>>, stride |-> <<1>>]}

\* save is called on a graph that holds a storage and a slice of it
InitSliced ==
    /\ py \in {2, 3}
    /\ cuda = NoCuda
    /\ InitRegistry
    /\ obj \in Seqs(SlicedTensors, MaxViews)
    /\ storages = SlicedStorages
    /\ dest = "path"
    /\ spc = "save"
    /\ save_err = NoErr
    /\ serialized_storages = EmptyMap
    /\ data_pkl = <<>>
    /\ tagger_calls = <<>>
    /\ written = <<>>
    /\ f = Stream(<<>>, FALSE, "raw", "file", 0, NoErr)
    /\ zip_file = <<>>
    /\ tar = NoTar
    /\ map_location = None
    /\ pc = "idle"
    /\ FreshLoad

\* the process registers packages, then saves a tensor to a path
InitTag ==
    /\ py \in {2, 3}
    /\ cuda = NoCuda
    /\ InitRegistry
    /\ obj = <<[storage |-> 20, storage_offset |-> 0, size |-> <<2>>, stride |-> <<1>>]>>
    /\ storages \in TaggedStorageMaps
    /\ dest = "path"
    /\ spc = "save"
    /\ save_err = NoErr
    /\ serialized_storages = EmptyMap
    /\ data_pkl = <<>>
    /\ tagger_calls = <<>>
    /\ written = <<>>
    /\ f = Stream(<<>>, FALSE, "raw", "file", 0, NoErr)
    /\ zip_file = <<>>
    /\ tar = NoTar
    /\ map_location = None
    /\ pc = "idle"
    /\ FreshLoad

----------------------------------------------------------------------------
(* Specifications *)

NextLoad ==
    \/ Load
    \/ LoadMetadata
    \/ PersistentLoad
    \/ LoadReturn
    \/ TarStorages
    \/ TarTensors
    \/ TarPersistentLoad
    \/ TarReturn

NextSave ==
    \/ SaveMetadata
    \/ SavePersistentId
    \/ SaveData
    \/ SaveTensor
    \/ SaveReturn
    \/ LoadSaved
    \/ Load
    \/ LoadMetadata
    \/ PersistentLoad
    \/ LoadReturn

\* load of any stream
SpecDispatch == InitDispatch /\ [][NextLoad]_vars

NextZip ==
    \/ Load
    \/ LoadMetadata
    \/ PersistentLoad
    \/ LoadReturn

NextTar ==
    \/ Load
    \/ TarStorages
    \/ TarTensors
    \/ TarPersistentLoad
    \/ TarReturn

\* load of a zip archive
SpecZip == InitZip /\ [][NextZip]_vars

\* load of a zip archive of tagged storages
SpecRestore == InitRestore /\ [][NextZip]_vars

\* load of an archive of either kind
SpecArchive == (InitZip \/ InitTar) /\ [][NextLoad]_vars

\* load of a tar archive
SpecTar == InitTar /\ [][NextTar]_vars

\* save of an object graph, and load of what it wrote
SpecSave == InitSave /\ [][NextSave]_vars

\* save of a graph with a slice of a storage, and load of what it wrote
SpecSliced == InitSliced /\ [][NextSave]_vars

\* registrations
SpecRegister == InitRegister /\ [][Register]_vars

NextTag ==
    \/ (spc = "save" /\ Register)
    \/ SaveMetadata
    \/ SavePersistentId
    \/ SaveData
    \/ SaveTensor
    \/ SaveReturn

\* registrations, then save of a tensor
SpecTag == InitTag /\ [][NextTag]_vars

----------------------------------------------------------------------------
(* Claims *)

HasZipSignature(stream) == \E k \in 1..Len(magic_numbers) : stream.head = magic_numbers[k]

HasPickleMarker(stream) == startswith(stream.head, PICKLE_MARKER)

\* the reader the leading bytes of a stream select
SelectedReader(stream) ==
    IF HasZipSignature(stream) THEN "zip"
    ELSE IF stream.kind = "tar" /\ _should_read_directly(stream) /\ stream.pos = 0 THEN "tar"
    ELSE IF HasPickleMarker(stream) THEN "pickle"
    ELSE "none"

\* C1: once load has dispatched a seekable stream, the stream went to the reader
\* its leading bytes select and to no other: the zip reader for a zip signature,
\* the tar reader for a tar archive, the flat-stream reader for a stream that is
\* neither and starts with the pickle-protocol marker.
C1_ReaderBySignature ==
    (pc # "load" /\ f.seek_exc = NoErr) =>
        readers = (IF SelectedReader(f) = "none" THEN {} ELSE {SelectedReader(f)})

\* C2: load of a seekable stream that matches none of the three signatures ends
\* with the unknown-file-type error and returns nothing.
C2_UnknownFileType ==
    (/\ pc = "done"
     /\ f.seek_exc = NoErr
     /\ ~HasZipSignature(f)
     /\ f.kind # "tar"
     /\ ~HasPickleMarker(f)) =>
        (err = UNKNOWN_FILE_TYPE /\ result = NotReturned)

HasRemediation(e) == Contains(REMEDIATION, e.msg)

MentionsSeekOrTell(msg) ==
    Contains(<<"s", "e", "e", "k">>, msg) \/ Contains(<<"t", "e", "l", "l">>, msg)

NothingTouched ==
    /\ stream_reads = 0
    /\ readers = {}
    /\ result = NotReturned
    /\ heap = <<>>
    /\ tmpdir = "none"

\* C3 as stated: when seek or tell raises UnsupportedOperation, load ends with that
\* kind of error carrying the remediation text, no byte read and no reader started.
C3_AlwaysRemediation ==
    (pc # "load" /\ f.seek_exc.type = "UnsupportedOperation") =>
        /\ pc = "done"
        /\ err.type = "UnsupportedOperation"
        /\ HasRemediation(err)
        /\ NothingTouched

\* C3 as amended: when seek or tell raises UnsupportedOperation or AttributeError,
\* load ends with an error of that kind, no byte read and no reader started; the
\* message is the raised one followed by the remediation text when the raised
\* message mentions "seek" or "tell", and the raised error unchanged otherwise.
C3_NotSeekable ==
    (pc # "load" /\ f.seek_exc.type \in {"UnsupportedOperation", "AttributeError"}) =>
        /\ pc = "done"
        /\ err.type = f.seek_exc.type
        /\ MentionsSeekOrTell(f.seek_exc.msg) => err.msg = f.seek_exc.msg \o REMEDIATION
        /\ ~MentionsSeekOrTell(f.seek_exc.msg) => err = f.seek_exc
        /\ NothingTouched

C3_Witness ==
    /\ pc = "done"
    /\ f.seek_exc.type = "UnsupportedOperation"
    /\ f.head = magic_numbers[1]
    /\ HasRemediation(err)
    /\ stream_reads = 0

\* C4: once the tar reader has exited, on any path, the temporary directory it
\* created is removed.
C4_TmpdirRemoved ==
    (pc = "done" /\ "tar" \in readers) => tmpdir = "removed"

StoredMetadata == ReadMember(zip_file, <<"metadata.pkl">>)

NothingDecoded ==
    /\ resolved = <<>>
    /\ heap = <<>>
    /\ loaded_storages = EmptyMap
    /\ io_count = EmptyMap
    /\ result = NotReturned

\* C5: with a stored magic number other than MAGIC_NUMBER load fails with the
\* invalid-magic-number error; with the magic number right and a stored protocol
\* version other than PROTOCOL_VERSION it fails with the invalid-protocol-version
\* error; in both cases nothing of the graph member is ever decoded: no reference
\* resolved, no storage allocated, remapped or read, nothing returned.
C5_MetadataFirst ==
    (HasMember(zip_file, <<"metadata.pkl">>) /\ StoredMetadata # GoodMetadata) =>
        /\ NothingDecoded
        /\ pc \in {"load", "zip_metadata", "done"}
        /\ pc = "done" =>
              err = (IF StoredMetadata.magic_number # MAGIC_NUMBER
                     THEN Exc("RuntimeError", <<"Invalid magic number; corrupt file?">>)
                     ELSE Exc("RuntimeError",
                              <<"Invalid protocol version: ">>
                              \o str(StoredMetadata.protocol_version)
                              \o <<", expected ">> \o str(PROTOCOL_VERSION)))

C5_Witness ==
    /\ pc = "done"
    /\ HasMember(zip_file, <<"metadata.pkl">>)
    /\ StoredMetadata.magic_number # MAGIC_NUMBER
    /\ StoredMetadata.protocol_version = PROTOCOL_VERSION
    /\ Len(DataPkl(zip_file)) > 0
    /\ err.type = "RuntimeError"

IsTensorMember(m) == startswith(m.name, <<"tensors/">>)

TensorMemberIndexes == {i \in 1..Len(written) : IsTensorMember(written[i])}

Identities == {obj[i].storage : i \in 1..Len(obj)}

\* C6: no storage member is ever written twice, every reference to one storage
\* carries one key and references to two storages carry two keys, and a save that
\* has completed has written exactly one member per distinct storage of the graph.
C6_OneMemberPerBuffer ==
    /\ \A i, j \in TensorMemberIndexes : i # j => written[i].name # written[j].name
    /\ \A i, j \in 1..Len(data_pkl) :
          (obj[i].storage = obj[j].storage) <=> (data_pkl[i].storage.key = data_pkl[j].storage.key)
    /\ (spc = "done" /\ save_err = NoErr) =>
          /\ Cardinality(TensorMemberIndexes) = Cardinality(Identities)
          /\ \A c \in Identities : HasMember(written, TensorName(str(c)))

C6_Witness ==
    /\ spc = "done"
    /\ save_err = NoErr
    /\ Len(obj) = 3
    /\ Cardinality(Identities) = 2
    /\ Cardinality(TensorMemberIndexes) = 2

ResolvedRef(i) == DataPkl(zip_file)[i].storage

MaterializedOnce ==
    \A k \in DOMAIN io_count :
        io_count[k].alloc <= 1 /\ io_count[k].remap <= 1 /\ io_count[k].read <= 1

EffectiveKey(ref) ==
    IF ref.view_metadata = None THEN ref.key ELSE ref.view_metadata.v[1]

AllOnCpu == \A c \in DOMAIN storages : storages[c].module = "torch"

\* C8: when load is through with the archive save wrote for a graph whose storages
\* are all on the CPU, with no remap request, it has returned one tensor view per
\* view of the graph, each with the shape, stride, offset and storage content of
\* the view it was saved from.
C8_RoundTrip ==
    (pc = "done" /\ AllOnCpu /\ map_location = None) =>
        /\ err = NoErr
        /\ result.t = "object"
        /\ Len(result.v) = Len(obj)
        /\ \A i \in 1..Len(obj) :
              /\ result.v[i].size = obj[i].size
              /\ result.v[i].stride = obj[i].stride
              /\ result.v[i].storage_offset = obj[i].storage_offset
              /\ Content(heap, result.v[i].storage) = storages[obj[i].storage].data

C8_Witness ==
    /\ pc = "done"
    /\ AllOnCpu
    /\ Len(obj) = 3
    /\ Cardinality(Identities) = 2
    /\ result.t = "object"
    /\ Len(result.v) = 3

AllTaggable ==
    \A i \in 1..Len(obj) : storages[obj[i].storage].module \in {"torch", "torch.cuda"}

\* C9: save to a path and save to an open stream both complete without error and
\* leave the metadata member, the graph member and one member per storage.
C9_SaveToPathOrStream ==
    (spc = "done" /\ AllTaggable) =>
        /\ save_err = NoErr
        /\ HasMember(written, <<"metadata.pkl">>)
        /\ HasMember(written, <<"data.pkl">>)
        /\ \A c \in Identities : HasMember(written, TensorName(str(c)))

\* C10: after any register_package calls every call has succeeded, the registry
\* holds every triple registered, and it is sorted ascending by priority.
C10_RegistrySorted ==
    /\ reg_err = NoErr
    /\ IsPermutation(_package_registry, reg_calls)
    /\ \A i \in 1..(Len(_package_registry) - 1) :
          _package_registry[i].priority <= _package_registry[i + 1].priority

\* the storage of the tensor given to save after the registrations
TaggedStorage == storages[obj[1].storage]

\* the entries of the registry whose tagger answers for the storage
Matching ==
    {i \in 1..Len(_package_registry) :
        call_tagger(_package_registry[i].tagger, TaggedStorage) # <<>>}

\* C11: once location_tag has run for a storage, under any registry: when some
\* tagger answers, the reference carries the answer of an answering tagger of the
\* lowest priority number among those that answer, and no tagger after that one was
\* called; the call fails with the unknown-location error exactly when no tagger
\* answers, and then no reference is written; a written reference has a tag.
C11_FirstTaggerByPriority ==
    (tagger_calls # <<>> /\ Len(obj) = 1) =>
        /\ (Matching = {}) <=> (save_err.type = "RuntimeError")
        /\ save_err # NoErr => data_pkl = <<>>
        /\ Matching # {} =>
              /\ Len(data_pkl) = 1
              /\ data_pkl[1].storage.location # <<>>
              /\ \E i \in Matching :
                    /\ \A j \in Matching :
                          _package_registry[i].priority <= _package_registry[j].priority
                    /\ data_pkl[1].storage.location =
                          call_tagger(_package_registry[i].tagger, TaggedStorage)
                    /\ Len(tagger_calls) <= i
                    /\ tagger_calls = taggers_called(_package_registry, Len(tagger_calls))

\* the reference the i-th persistent_load call of this load is given
StoredRef(i) == DataPkl(zip_file)[i].storage

\* the reference load failed on, when it failed in the graph record
FailedRef == StoredRef(Len(resolved) + 1)

FailedInData ==
    /\ pc = "done"
    /\ err # NoErr
    /\ "zip" \in readers
    /\ check_metadata(zip_file) = NoErr
    /\ Len(resolved) < Len(DataPkl(zip_file))

\* the tag a tag-to-tag mapping asks the restorers for
MappedTag(tag) ==
    IF tag \in DOMAIN map_location.v THEN map_location.v[tag] ELSE tag

OnCpu(inst) == heap[inst].module = "torch" /\ heap[inst].device = -1

OnDevice(inst, d) == heap[inst].module = "torch.cuda" /\ heap[inst].device = d

IsCudaTag(tag) == startswith(tag, CUDA)

\* C12: with a tag-to-tag mapping as remap request, a reference is restored under
\* the tag the mapping gives for its tag, and under its own tag when its tag is
\* not a key: what is restored under "cpu" is a CPU storage and its restore never
\* fails, whatever the runtime; what is restored under an accelerator tag is an
\* accelerator storage; a failure is a failure of restoring under the mapped tag.
C12_MappingRemap ==
    (map_location # None /\ map_location.t = "dict") =>
        /\ \A i \in 1..Len(resolved) :
              /\ MappedTag(StoredRef(i).location) = CPU => OnCpu(resolved[i])
              /\ IsCudaTag(MappedTag(StoredRef(i).location)) =>
                    heap[resolved[i]].module = "torch.cuda" /\ cuda.available
              /\ MappedTag(StoredRef(i).location) # XLA
        /\ FailedInData =>
              /\ MappedTag(FailedRef.location) # CPU
              /\ IsCudaTag(MappedTag(FailedRef.location)) =>
                    ~cuda.available
                    \/ Contains(<<" but torch.cuda.device_count() is ">>, err.msg)
              /\ MappedTag(FailedRef.location) = XLA =>
                    err.msg[1] = "don't know how to restore data location of "

C12_Witness ==
    /\ pc = "done"
    /\ err = NoErr
    /\ cuda = NoCuda
    /\ map_location = Dict(CudaTag(0) :> CPU)
    /\ Len(resolved) = 2
    /\ StoredRef(1).location = CudaTag(0)
    /\ StoredRef(2).location = CPU
    /\ OnCpu(resolved[1])
    /\ result.t = "object"

ReturnsStorage == [t |-> "function", v |-> "lambda storage, loc: storage"]

ReturnsNone == [t |-> "function", v |-> "lambda storage, loc: None"]

\* C13: with a two-argument function as remap request every resolved reference
\* is a storage, never nothing. When the function returns the storage it was
\* given, that storage is the result whatever the tag, and the restore does not
\* fail. When it returns None the result is what the registry restores for the
\* original tag: a CPU storage for "cpu", an accelerator storage for an
\* accelerator tag, and the unknown-location error for a tag no restorer knows.
C13_FunctionRemap ==
    (map_location # None /\ map_location.t = "function") =>
        /\ \A i \in 1..Len(resolved) :
              /\ resolved[i] \in 1..Len(heap)
              /\ map_location = ReturnsStorage => OnCpu(resolved[i])
              /\ map_location = ReturnsNone =>
                    /\ StoredRef(i).location = CPU => OnCpu(resolved[i])
                    /\ IsCudaTag(StoredRef(i).location) =>
                          heap[resolved[i]].module = "torch.cuda" /\ cuda.available
                    /\ StoredRef(i).location # XLA
        /\ FailedInData =>
              /\ map_location = ReturnsNone
              /\ FailedRef.location # CPU
              /\ err.type = "RuntimeError"
              /\ FailedRef.location = XLA =>
                    err.msg[1] = "don't know how to restore data location of "
              /\ IsCudaTag(FailedRef.location) =>
                    ~cuda.available
                    \/ Contains(<<" but torch.cuda.device_count() is ">>, err.msg)

C13_Witness ==
    /\ pc = "done"
    /\ err = NoErr
    /\ map_location = ReturnsNone
    /\ cuda.count = 2
    /\ Len(resolved) = 2
    /\ StoredRef(1).location = CudaTag(1)
    /\ StoredRef(2).location = CPU
    /\ OnDevice(resolved[1], 1)
    /\ OnCpu(resolved[2])

\* the storage of key k is allocated, remapped and read, and is in _load's table
Materialized(k) ==
    /\ k \in DOMAIN loaded_storages
    /\ k \in DOMAIN io_count
    /\ io_count[k] = [alloc |-> 1, remap |-> 1, read |-> 1]
    /\ Content(heap, loaded_storages[k]) = ReadMember(zip_file, TensorName(k)).data

\* the ids the sections 'storages' and 'tensors' of the tar archive define
TarDefined ==
    {tar.storage_recs[i].key : i \in 1..Len(tar.storage_recs)}
    \cup {tar.storage_views[i].target_cdata : i \in 1..Len(tar.storage_views)}
    \cup {tar.tensor_recs[i].key : i \in 1..Len(tar.tensor_recs)}

StorageOf(i) == storages[obj[i].storage]

\* C15: the reference persistent_id returns for a storage that is a sub-range of
\* another storage carries view metadata (root key, offset, element count), the
\* reference it returns for a root storage carries none, and for a tensor, which
\* is not a storage, persistent_id returns nothing.
C15_ViewMetadata ==
    /\ \A i \in 1..Len(data_pkl) :
          IF StorageOf(i).root # obj[i].storage
          THEN data_pkl[i].storage.view_metadata =
                   [t |-> "tuple",
                    v |-> <<str(StorageOf(i).root), StorageOf(i).root_offset,
                            StorageOf(i).size>>]
          ELSE data_pkl[i].storage.view_metadata = None
    /\ \A i \in 1..Len(obj) :
          persistent_id([t |-> "tensor", v |-> obj[i]], storages, serialized_storages,
                        _package_registry).id = None

\* the tar reader got through 'storages', 'tensors' and the lookup of 'pickle'
\* and failed while it decoded the graph record
FailedInPickle ==
    /\ pc = "done"
    /\ "tar" \in readers
    /\ err # NoErr
    /\ tar.storages = "ok"
    /\ tar.tensors = "ok"
    /\ tar.pickle = "ok"
    /\ TarDefined \subseteq DOMAIN deserialized_objects
    /\ Len(resolved) < Len(tar.pickle_ids)

\* C16: in the tar reader, persistent_load returns for a tuple reference the
\* class that is the tuple's first element, with saved source as well as without,
\* and raises nothing for it; for an integer id it returns the object the table
\* holds under that id.
C16_TarPersistentLoad ==
    /\ "tar" \in readers =>
          \A i \in 1..Len(resolved) :
              IF tar.pickle_ids[i].t = "tuple"
              THEN resolved[i] = [t |-> "class", v |-> tar.pickle_ids[i].v[1]]
              ELSE /\ tar.pickle_ids[i].v \in DOMAIN deserialized_objects
                   /\ resolved[i] = [t |-> "object",
                                     v |-> deserialized_objects[tar.pickle_ids[i].v]]
    /\ FailedInPickle => tar.pickle_ids[Len(resolved) + 1].t # "tuple"

\* the device index an accelerator tag names: 0 when the tag has no index
SelectedDevice(tag) == IF tag = CUDA THEN 0 ELSE NatOf(index_text(tag))

\* the tag is "cuda" or "cuda:<n>" with n >= 0
NamesDevice(tag) == tag = CUDA \/ (startswith(tag, CUDA \o <<":">>) /\ IsDigits(index_text(tag)))

\* C17: without a remap request, on a runtime with cuda.count devices, a
\* reference with tag "cuda" or "cuda:<n>", n >= 0, is restored to a storage on
\* device 0 or n; its restore fails with the accelerator-unavailable error when no
\* accelerator is available, whatever the index, and with the device-count error,
\* which states the index and the count, exactly when an accelerator is available
\* and the index is not below the count; no restored storage is on a device
\* below 0, whatever the tag.
C17_CudaDevice ==
    map_location = None =>
        /\ \A i \in 1..Len(resolved) :
              /\ IsCudaTag(StoredRef(i).location) =>
                    /\ cuda.available
                    /\ heap[resolved[i]].module = "torch.cuda"
                    /\ heap[resolved[i]].device >= 0
                    /\ heap[resolved[i]].device < cuda.count
              /\ NamesDevice(StoredRef(i).location) =>
                    OnDevice(resolved[i], SelectedDevice(StoredRef(i).location))
        /\ (FailedInData /\ NamesDevice(FailedRef.location)) =>
              IF ~cuda.available
              THEN err = CUDA_UNAVAILABLE
              ELSE /\ SelectedDevice(FailedRef.location) >= cuda.count
                   /\ err = cuda_index_error(SelectedDevice(FailedRef.location), cuda.count)

C17_Witness ==
    /\ pc = "done"
    /\ map_location = None
    /\ cuda = [available |-> TRUE, count |-> 1]
    /\ Len(resolved) = 1
    /\ StoredRef(1).location = CUDA
    /\ OnDevice(resolved[1], 0)
    /\ Len(DataPkl(zip_file)) = 2
    /\ FailedRef.location = CudaTag(1)
    /\ err = cuda_index_error(1, 1)
====
